---- MODULE Spec2Model ----
(***************************************************************************)
(* The console -> logger migration scripts (server and client variants)    *)
(* and the failed-job retry script of tcad-scraper.                        *)
(*                                                                         *)
(* A text (file content, path, line) is a sequence of one-character        *)
(* strings, so that the regular expressions, split/join, strip and the     *)
(* substring tests are computed character by character as Python does.     *)
(***************************************************************************)
EXTENDS Integers, Sequences, FiniteSets, TLC

VARIABLES
    variant,        \* "server" (batch-migrate.py) or "client" (batch-migrate-client.py)
    fpath,          \* the path handed to migrate_file when it is called directly
    disk,           \* the content of that file on disk
    hist,           \* one record per completed direct call of migrate_file
    files,          \* sys.argv[1:] of main
    fs,             \* the file system main runs on: path -> file
    idx,            \* position of main's for loop in files (1-based)
    pc,             \* where main is: "start", "loop", "done", "usage", "crashed"
    out,            \* the lines printed by main and by the migrate_file calls it makes
    migrated_count, \* main's counter
    data,           \* the job records of the history response
    search_terms,   \* retry script: list(set(...)) of the failed search terms
    rpc,            \* retry script position: "get", "loop", "done", "crashed"
    ri,             \* retry script: index of the next term to POST (1-based)
    success,        \* retry script counter
    failed,         \* retry script counter
    posts           \* retry script: the POST requests issued, with their outcome

fileVars == <<variant, fpath, disk, hist>>
batchVars == <<files, fs, idx, pc, out, migrated_count>>
retryVars == <<data, search_terms, rpc, ri, success, failed, posts>>
vars == <<variant, fpath, disk, hist, files, fs, idx, pc, out, migrated_count,
          data, search_terms, rpc, ri, success, failed, posts>>

----------------------------------------------------------------------------
(* Bounds of the model *)

\* number of fragments a generated file text is made of
MaxFrags == 3
\* number of paths on main's command line
MaxFiles == 3
\* number of job records in the history response
MaxJobs == 3

----------------------------------------------------------------------------
(* String literals of the sources *)

console_log == <<"c","o","n","s","o","l","e",".","l","o","g">>
console_error == <<"c","o","n","s","o","l","e",".","e","r","r","o","r">>
console_warn == <<"c","o","n","s","o","l","e",".","w","a","r","n">>
console_info == <<"c","o","n","s","o","l","e",".","i","n","f","o">>
console_debug == <<"c","o","n","s","o","l","e",".","d","e","b","u","g">>
logger_info == <<"l","o","g","g","e","r",".","i","n","f","o">>
logger_error == <<"l","o","g","g","e","r",".","e","r","r","o","r">>
logger_warn == <<"l","o","g","g","e","r",".","w","a","r","n">>
logger_debug == <<"l","o","g","g","e","r",".","d","e","b","u","g">>

IMPORT_SAME_DIR == <<"i","m","p","o","r","t"," ","l","o","g","g","e","r"," ","f","r","o","m"," ","'",".","/","l","o","g","g","e","r","'",";">>
IMPORT_PARENT_LIB == <<"i","m","p","o","r","t"," ","l","o","g","g","e","r"," ","f","r","o","m"," ","'",".",".","/","l","i","b","/","l","o","g","g","e","r","'",";">>
IMPORT_CHILD_LIB == <<"i","m","p","o","r","t"," ","l","o","g","g","e","r"," ","f","r","o","m"," ","'",".","/","l","i","b","/","l","o","g","g","e","r","'",";">>

DIR_lib == <<"/","l","i","b","/">>
DIR_scripts == <<"/","s","c","r","i","p","t","s","/">>
DIR_cli == <<"/","c","l","i","/">>
DIR_services == <<"/","s","e","r","v","i","c","e","s","/">>
DIR_middleware == <<"/","m","i","d","d","l","e","w","a","r","e","/">>
DIR_routes == <<"/","r","o","u","t","e","s","/">>
DIR_utils == <<"/","u","t","i","l","s","/">>
DIR_components == <<"/","c","o","m","p","o","n","e","n","t","s","/">>
EXT_tsx == <<".","t","s","x">>
EXT_ts == <<".","t","s">>

LOGGER_IMPORT_MARKER == <<"i","m","p","o","r","t"," ","l","o","g","g","e","r"," ","f","r","o","m">>
IMPORT_PREFIX == <<"i","m","p","o","r","t"," ">>
IMPORT_TYPE_PREFIX == <<"i","m","p","o","r","t"," ","t","y","p","e">>
SHEBANG_PREFIX == <<"#","!">>
MIGRATION_SCRIPT == <<"m","i","g","r","a","t","e","-","t","o","-","l","o","g","g","e","r",".","t","s">>
NL == "\n"

logger_log == <<"l","o","g","g","e","r",".","l","o","g">>

\* a map that sends console.log to logger.log
MapWithLoggerLog ==
    << <<console_log, logger_log>>,
       <<console_error, logger_error>>,
       <<console_warn, logger_warn>>,
       <<console_info, logger_info>>,
       <<console_debug, logger_debug>> >>

\* CONSOLE_TO_LOGGER_MAP, in the insertion order the dict is iterated in
CONSOLE_TO_LOGGER_MAP ==
    << <<console_log, logger_info>>,
       <<console_error, logger_error>>,
       <<console_warn, logger_warn>>,
       <<console_info, logger_info>>,
       <<console_debug, logger_debug>> >>

\* IMPORT_PATH_RULES, first match wins
IMPORT_PATH_RULES ==
    << <<DIR_lib, IMPORT_SAME_DIR>>,
       <<DIR_scripts, IMPORT_PARENT_LIB>>,
       <<DIR_cli, IMPORT_PARENT_LIB>>,
       <<DIR_services, IMPORT_PARENT_LIB>>,
       <<DIR_middleware, IMPORT_PARENT_LIB>>,
       <<DIR_routes, IMPORT_PARENT_LIB>>,
       <<DIR_utils, IMPORT_PARENT_LIB>> >>

DEFAULT_LOGGER_IMPORT == IMPORT_PARENT_LIB

----------------------------------------------------------------------------
(* Python's str and re operations, on sequences of characters *)

\* the characters \w matches (of those that occur in the model's texts)
WordChars ==
    {"a","b","c","d","e","f","g","h","i","j","k","l","m","n","o","p","q","r",
     "s","t","u","v","w","x","y","z","T","_"}

\* the characters str.strip() removes
Whitespace == {" ", "\t"}

IsWordChar(c) == c \in WordChars

\* a pattern written without \b: every gap passes
NoWordBoundaryCheck(s, i) == TRUE

\* \b at the gap before position i of s (1 <= i <= Len(s) + 1)
WordBoundaryAt(s, i) ==
    LET before == i > 1 /\ IsWordChar(s[i - 1])
        after == i <= Len(s) /\ IsWordChar(s[i])
    IN before # after

\* s[i ..] starts with the literal lit
LiteralAt(lit, s, i) ==
    /\ i >= 1
    /\ i + Len(lit) - 1 <= Len(s)
    /\ \A k \in 1..Len(lit) : s[i + k - 1] = lit[k]

\* a pattern written without the closing \b
MatchAtNoClosingBoundary(lit, s, i) ==
    /\ LiteralAt(lit, s, i)
    /\ WordBoundaryAt(s, i)

\* rf'\b{re.escape(lit)}\b' matches s at position i
MatchAt(lit, s, i) ==
    /\ LiteralAt(lit, s, i)
    /\ WordBoundaryAt(s, i)
    /\ WordBoundaryAt(s, i + Len(lit))

\* the starts of the non-overlapping matches re.sub finds, left to right:
\* the leftmost match at or after `from`, then the search resumes after it
RECURSIVE MatchesFrom(_, _, _)
MatchesFrom(lit, s, from) ==
    IF \A i \in from..Len(s) : s[i] = lit[1] => ~MatchAt(lit, s, i) THEN <<>>
    ELSE LET m == CHOOSE i \in from..Len(s) :
                      /\ s[i] = lit[1]
                      /\ MatchAt(lit, s, i)
                      /\ \A j \in from..(i - 1) : s[j] = lit[1] => ~MatchAt(lit, s, j)
         IN <<m>> \o MatchesFrom(lit, s, m + Len(lit))

Matches(lit, s) == MatchesFrom(lit, s, 1)

\* seq with the n elements at each of starts replaced by repl
RECURSIVE SpliceFrom(_, _, _, _, _)
SpliceFrom(seq, starts, n, repl, from) ==
    IF starts = <<>> THEN SubSeq(seq, from, Len(seq))
    ELSE SubSeq(seq, from, Head(starts) - 1) \o repl
         \o SpliceFrom(seq, Tail(starts), n, repl, Head(starts) + n)

Splice(seq, starts, n, repl) == SpliceFrom(seq, starts, n, repl, 1)

\* re.sub(rf'\b{re.escape(lit)}\b', repl, s)
re_sub(lit, repl, s) == Splice(s, Matches(lit, s), Len(lit), repl)

\* sub in s
Contains(sub, s) == \E i \in 1..(Len(s) - Len(sub) + 1) : LiteralAt(sub, s, i)

\* s.startswith(prefix), s.endswith(suffix)
StartsWith(s, prefix) == LiteralAt(prefix, s, 1)
EndsWith(s, suffix) == LiteralAt(suffix, s, Len(s) - Len(suffix) + 1)

\* s.strip()
RECURSIVE LStrip(_)
LStrip(s) == IF s # <<>> /\ Head(s) \in Whitespace THEN LStrip(Tail(s)) ELSE s
RECURSIVE RStrip(_)
RStrip(s) ==
    IF s # <<>> /\ s[Len(s)] \in Whitespace THEN RStrip(SubSeq(s, 1, Len(s) - 1)) ELSE s
Strip(s) == RStrip(LStrip(s))

\* s.split('\n'): always at least one line
RECURSIVE SplitFrom(_, _, _)
SplitFrom(s, i, cur) ==
    IF i > Len(s) THEN <<cur>>
    ELSE IF s[i] = NL THEN <<cur>> \o SplitFrom(s, i + 1, <<>>)
         ELSE SplitFrom(s, i + 1, Append(cur, s[i]))
Split(s) == SplitFrom(s, 1, <<>>)

\* '\n'.join(lines)
RECURSIVE Join(_)
Join(lines) ==
    IF lines = <<>> THEN <<>>
    ELSE IF Len(lines) = 1 THEN lines[1]
         ELSE lines[1] \o <<NL>> \o Join(Tail(lines))

\* list.insert(pos, x) with a 0-based pos, 0 <= pos; pos beyond the end appends
ListInsert(lines, pos, x) ==
    LET p == IF pos > Len(lines) THEN Len(lines) ELSE pos
    IN SubSeq(lines, 1, p) \o <<x>> \o SubSeq(lines, p + 1, Len(lines))

----------------------------------------------------------------------------
(* batch-migrate.py: the helper functions *)

\* the loop body of _apply_console_replacements, over the rest of the map
RECURSIVE ApplyRules(_, _)
ApplyRules(rules, content) ==
    IF rules = <<>> THEN content
    ELSE ApplyRules(Tail(rules), re_sub(Head(rules)[1], Head(rules)[2], content))

apply_console_replacements(content) == ApplyRules(CONSOLE_TO_LOGGER_MAP, content)

RECURSIVE FirstRule(_, _)
FirstRule(rules, filepath) ==
    IF rules = <<>> THEN DEFAULT_LOGGER_IMPORT
    ELSE IF Contains(Head(rules)[1], filepath) THEN Head(rules)[2]
         ELSE FirstRule(Tail(rules), filepath)

get_logger_import_for_path(filepath) == FirstRule(IMPORT_PATH_RULES, filepath)

\* the test of the scan loop: an import line that is not a type import
IsImportLine(line) ==
    /\ StartsWith(Strip(line), IMPORT_PREFIX)
    /\ ~StartsWith(Strip(line), IMPORT_TYPE_PREFIX)

\* 0-based index of the last import line, -1 when there is none
find_last_import_index(lines) ==
    LET hits == {i \in 1..Len(lines) : IsImportLine(lines[i])}
    IN IF hits = {} THEN -1
       ELSE (CHOOSE i \in hits : \A j \in hits : j <= i) - 1

insert_import(lines, logger_import, last_import_idx) ==
    IF last_import_idx >= 0 THEN ListInsert(lines, last_import_idx + 1, logger_import)
    ELSE IF StartsWith(lines[1], SHEBANG_PREFIX)
         THEN LET insert_pos == IF Len(lines) > 1 /\ Strip(lines[2]) = <<>> THEN 2 ELSE 1
              IN ListInsert(lines, insert_pos, logger_import)
         ELSE ListInsert(lines, 0, logger_import)

\* lines 100-106 of migrate_file: the content with the logger import added
server_add_import(filepath, content) ==
    LET lines == Split(content)
        logger_import == get_logger_import_for_path(filepath)
        last_import_idx == find_last_import_index(lines)
    IN Join(insert_import(lines, logger_import, last_import_idx))

----------------------------------------------------------------------------
(* batch-migrate-client.py: the same steps, written inline in migrate_file *)

client_replacements(content) ==
    LET c1 == re_sub(console_log, logger_info, content)
        c2 == re_sub(console_error, logger_error, c1)
        c3 == re_sub(console_warn, logger_warn, c2)
        c4 == re_sub(console_info, logger_info, c3)
    IN re_sub(console_debug, logger_debug, c4)

client_logger_import(filepath) ==
    IF Contains(DIR_components, filepath) THEN IMPORT_PARENT_LIB
    ELSE IF Contains(DIR_services, filepath) THEN IMPORT_PARENT_LIB
    ELSE IF Contains(DIR_lib, filepath) THEN IMPORT_SAME_DIR
    ELSE IF EndsWith(filepath, EXT_tsx) \/ EndsWith(filepath, EXT_ts) THEN IMPORT_CHILD_LIB
    ELSE IMPORT_CHILD_LIB

client_insert_import(lines, logger_import, last_import_idx) ==
    IF last_import_idx >= 0 THEN ListInsert(lines, last_import_idx + 1, logger_import)
    ELSE ListInsert(lines, 0, logger_import)

client_add_import(filepath, content) ==
    LET lines == Split(content)
        last_import_idx == find_last_import_index(lines)
        logger_import == client_logger_import(filepath)
    IN Join(client_insert_import(lines, logger_import, last_import_idx))

----------------------------------------------------------------------------
(* migrate_file, of either script *)

Replaced(v, content) ==
    IF v = "server" THEN apply_console_replacements(content)
    ELSE client_replacements(content)

LoggerImport(v, filepath) ==
    IF v = "server" THEN get_logger_import_for_path(filepath)
    ELSE client_logger_import(filepath)

AddImport(v, filepath, content) ==
    IF v = "server" THEN server_add_import(filepath, content)
    ELSE client_add_import(filepath, content)

\* migrate_file without the early return on unchanged content
migrate_file_always_writes(v, filepath, file) ==
    LET original_content == file.text
        has_logger_import == Contains(LOGGER_IMPORT_MARKER, original_content)
        Rest(content) ==
            [ret |-> "True",
             text |-> IF ~has_logger_import /\ content # original_content
                      THEN AddImport(v, filepath, content)
                      ELSE content,
             wrote |-> TRUE, line |-> "Migrated", replaced |-> content]
    IN Rest(Replaced(v, original_content))

\* migrate_file without the test for an existing logger import
migrate_file_always_imports(v, filepath, file) ==
    LET original_content == file.text
        Rest(content) ==
            IF content = original_content
            THEN [ret |-> "False", text |-> file.text, wrote |-> FALSE,
                  line |-> "No changes", replaced |-> content]
            ELSE [ret |-> "True", text |-> AddImport(v, filepath, content),
                  wrote |-> TRUE, line |-> "Migrated", replaced |-> content]
    IN Rest(Replaced(v, original_content))

\* A file is [text: its content, fault: "none", "read" (open/read/decode raises)
\* or "write" (opening for writing raises)].
\* The result: ret is "True", "False" or "raise"; text is the content on disk
\* afterwards; wrote says whether f.write ran; line is the status printed;
\* replaced is the local variable content after the replacements.
migrate_file(v, filepath, file) ==
    IF file.fault = "read"
    THEN [ret |-> "raise", text |-> file.text, wrote |-> FALSE, line |-> "none",
          replaced |-> <<>>]
    ELSE LET original_content == file.text
             has_logger_import == Contains(LOGGER_IMPORT_MARKER, original_content)
             Rest(content) ==
                 IF content = original_content
                 THEN [ret |-> "False", text |-> file.text, wrote |-> FALSE,
                       line |-> "No changes", replaced |-> content]
                 ELSE IF file.fault = "write"
                 THEN [ret |-> "raise", text |-> file.text, wrote |-> FALSE,
                       line |-> "none", replaced |-> content]
                 ELSE [ret |-> "True",
                       text |-> IF ~has_logger_import
                                THEN AddImport(v, filepath, content)
                                ELSE content,
                       wrote |-> TRUE, line |-> "Migrated", replaced |-> content]
         IN Rest(Replaced(v, original_content))

----------------------------------------------------------------------------
(* Inputs: the file texts and paths the model runs on *)

F_dot == <<".">>
F_g == <<"g">>
F_sp == <<" ">>
F_nl == <<"\n">>
F_console == <<"c","o","n","s","o","l","e",".">>
F_import == <<"i","m","p","o","r","t"," ","a","\n">>
F_import_type == <<"i","m","p","o","r","t"," ","t","y","p","e"," ","T","\n">>
F_import_types == <<"i","m","p","o","r","t"," ","t","y","p","e","s","\n">>
F_shebang == <<"#","!","n","\n">>
F_marker == <<"i","m","p","o","r","t"," ","l","o","g","g","e","r"," ","f","r","o","m","\n">>

\* the pieces of the texts that exercise the line structure: imports, type
\* imports, a shebang, blank and indented lines, an existing logger import
LineFrags ==
    {console_log, F_sp, F_nl, F_import, F_import_type, F_import_types,
     F_shebang, F_marker}

\* the pieces of the texts that exercise the word boundaries
TokenFrags == {console_log, console_error, F_console, F_g, F_dot}

\* the pieces of the texts that exercise every rule of the map
RuleFrags ==
    {console_log, console_error, console_warn, console_info, console_debug, F_nl}

RECURSIVE Flatten(_)
Flatten(pieces) == IF pieces = <<>> THEN <<>> ELSE Head(pieces) \o Flatten(Tail(pieces))

TextsOf(frags, n) == {Flatten(f) : f \in UNION {[1..k -> frags] : k \in 0..n}}

Texts ==
    TextsOf(LineFrags, MaxFrags) \cup TextsOf(TokenFrags, MaxFrags)
        \cup TextsOf(RuleFrags, MaxFrags)

PATH_lib == <<"s","r","c","/","l","i","b","/","a",".","t","s">>
PATH_root == <<"b",".","j","s">>
PATH_self == <<"m","i","g","r","a","t","e","-","t","o","-","l","o","g","g","e","r",".","t","s">>

Variants == {"server", "client"}

----------------------------------------------------------------------------
(* migrate_file called directly on one readable, writable file, repeatedly *)

\* number of successive calls of migrate_file on the file
MaxCalls == 2

BatchIdle ==
    /\ files = <<>> /\ fs = <<>> /\ idx = 0 /\ pc = "idle" /\ out = <<>>
    /\ migrated_count = 0

RetryIdle ==
    /\ data = <<>> /\ search_terms = <<>> /\ rpc = "idle" /\ ri = 0
    /\ success = 0 /\ failed = 0 /\ posts = <<>>

InitFile ==
    /\ variant \in Variants
    /\ fpath \in {PATH_lib, PATH_root}
    /\ disk \in Texts
    /\ hist = <<>>
    /\ BatchIdle
    /\ RetryIdle

\* one call migrate_file(fpath): read, replace, add the import, write back
MigrateCall ==
    /\ pc = "idle" /\ rpc = "idle"
    /\ Len(hist) < MaxCalls
    /\ \E r \in {migrate_file(variant, fpath, [text |-> disk, fault |-> "none"])} :
          /\ disk' = r.text
          /\ hist' = Append(hist, [rd |-> disk, replaced |-> r.replaced,
                                   ret |-> r.ret, wrote |-> r.wrote,
                                   after |-> r.text])
    /\ UNCHANGED <<variant, fpath>>
    /\ UNCHANGED batchVars
    /\ UNCHANGED retryVars

NextFile == MigrateCall

SpecFile == InitFile /\ [][NextFile]_vars

----------------------------------------------------------------------------
(* Properties of migrate_file, stated on the call that has just returned *)

Called == Len(hist) > 0
LastCall == hist[Len(hist)]

\* the import statement the script selects for the file
TheImport == LoggerImport(variant, fpath)

RemoveAt(seq, j) == SubSeq(seq, 1, j - 1) \o SubSeq(seq, j + 1, Len(seq))

Patterns == {console_log, console_error, console_warn, console_info, console_debug}

\* pat occurs in s at position i as a substring
OccursAt(pat, s, i) == LiteralAt(pat, s, i)

\* the positions of s where 'console.' starts: every pattern starts with it
ConsoleStarts(s) == {i \in 1..Len(s) : s[i] = "c" /\ LiteralAt(F_console, s, i)}

\* s has no occurrence at all of any console.* pattern
NoOccurrence(s) == \A i \in ConsoleStarts(s) : \A pat \in Patterns : ~OccursAt(pat, s, i)

\* C2: migrate_file writes the file if and only if the text after the
\* replacements differs from the text read, it returns True exactly then, a
\* file it does not write keeps its content, and a text with no occurrence of
\* console.log / error / warn / info / debug is Unchanged and never written.
Thm_C2_WriteIffChanged ==
    Called =>
        /\ LastCall.wrote <=> (LastCall.replaced # LastCall.rd)
        /\ LastCall.wrote <=> (LastCall.ret = "True")
        /\ ~LastCall.wrote => (LastCall.ret = "False" /\ LastCall.after = LastCall.rd)
        /\ NoOccurrence(LastCall.rd) =>
               (LastCall.ret = "False" /\ ~LastCall.wrote /\ LastCall.after = LastCall.rd)

\* a first call that rewrote the file followed by a call that left it alone
Wit_C2 ==
    /\ Len(hist) = 2
    /\ hist[1].wrote /\ hist[1].after # hist[1].rd
    /\ ~hist[2].wrote /\ NoOccurrence(hist[2].rd)

CountLines(lines, line) == Cardinality({j \in 1..Len(lines) : lines[j] = line})

\* C3: one call inserts exactly one import line when a rewrite occurs and the
\* text read has no 'import logger from' marker, and none in every other case;
\* the written text has exactly 1 resp. 0 lines more than the text read.
Thm_C3_OneImportOrNone ==
    Called =>
        \E before \in {Split(LastCall.rd)} : \E after \in {Split(LastCall.after)} :
           IF LastCall.wrote /\ ~Contains(LOGGER_IMPORT_MARKER, LastCall.rd)
           THEN /\ Len(after) = Len(before) + 1
                /\ CountLines(after, TheImport) = CountLines(before, TheImport) + 1
                /\ \E j \in 1..Len(after) :
                       /\ after[j] = TheImport
                       /\ RemoveAt(after, j) = Split(LastCall.replaced)
           ELSE /\ Len(after) = Len(before)
                /\ CountLines(after, TheImport) = CountLines(before, TheImport)
                /\ LastCall.after = IF LastCall.wrote THEN LastCall.replaced
                                    ELSE LastCall.rd

\* a rewrite of a text without the marker: one line more than was read
Wit_C3 ==
    /\ Len(hist) = 1
    /\ hist[1].wrote
    /\ ~Contains(LOGGER_IMPORT_MARKER, hist[1].rd)
    /\ Len(Split(hist[1].after)) = Len(Split(hist[1].rd)) + 1

\* C4: idempotence. A call of migrate_file that follows a call on the same
\* file returns False and leaves the content the earlier call left.
Thm_C4_Idempotent ==
    \A k \in 2..Len(hist) :
        /\ hist[k].ret = "False"
        /\ ~hist[k].wrote
        /\ hist[k].rd = hist[k - 1].after
        /\ hist[k].after = hist[k - 1].after

\* a second run on a file whose first run left 'console.logger.info': the
\* output of a replacement right after 'console.'
Wit_C4 ==
    /\ Len(hist) = 2
    /\ hist[1].ret = "True"
    /\ Contains(F_console \o logger_info, hist[1].after)
    /\ hist[2].ret = "False"

----------------------------------------------------------------------------
(* The replacement pass, followed character by character *)

Zeros(n) == [k \in 1..n |-> 0]

\* The pass over the rules with, next to the text, the origin of each of its
\* characters: its position in the text the pass started from, or 0 for a
\* character a replacement put there.
RECURSIVE TraceRules(_, _, _)
TraceRules(rules, txt, org) ==
    IF rules = <<>> THEN [txt |-> txt, org |-> org]
    ELSE LET lit == Head(rules)[1]
             repl == Head(rules)[2]
             Step(starts) ==
                 TraceRules(Tail(rules),
                            Splice(txt, starts, Len(lit), repl),
                            Splice(org, starts, Len(lit), Zeros(Len(repl))))
         IN Step(Matches(lit, txt))

Trace(s) == TraceRules(CONSOLE_TO_LOGGER_MAP, s, [k \in 1..Len(s) |-> k])

\* the n characters of the input from position i on are still there, in a row
KeptSpan(org, i, n) ==
    \E k \in 1..(Len(org) - n + 1) : \A j \in 0..(n - 1) : org[k + j] = i + j

\* the character before or after the span is a word character: the span is
\* part of a longer identifier, as in xconsole.log or console.logger
AdjoinsWordChar(s, i, n) ==
    \/ i > 1 /\ s[i - 1] \in WordChars
    \/ i + n <= Len(s) /\ s[i + n] \in WordChars

\* ... or a dot: the span is part of a longer dotted name, as in
\* console.log.bind or my.console.log
AdjoinsNameChar(s, i, n) ==
    \/ i > 1 /\ s[i - 1] \in WordChars \cup {"."}
    \/ i + n <= Len(s) /\ s[i + n] \in WordChars \cup {"."}

\* the trace is the trace of the pass the call made
TraceOfCall(t, h) ==
    /\ t.txt = h.replaced
    /\ Len(t.org) = Len(t.txt)
    /\ \A k \in 1..Len(t.org) : t.org[k] # 0 => t.txt[k] = h.rd[t.org[k]]

\* C5 as claimed: an occurrence of a pattern inside a longer identifier or a
\* longer dotted name (console.logger, console.log.bind, my.console.log,
\* xconsole.log) is not altered by the replacement pass.
Cex_C5_DottedNamesKept ==
    Called =>
        \E t \in {Trace(LastCall.rd)} :
            /\ TraceOfCall(t, LastCall)
            /\ \A i \in ConsoleStarts(LastCall.rd) : \A pat \in Patterns :
                   (OccursAt(pat, LastCall.rd, i)
                    /\ AdjoinsNameChar(LastCall.rd, i, Len(pat)))
                       => KeptSpan(t.org, i, Len(pat))

\* C5 amended: an occurrence of a pattern that has a word character (letter,
\* digit, underscore) right before or right after it is not altered by the
\* replacement pass.
Thm_C5_WordNeighbourKept ==
    Called =>
        \E t \in {Trace(LastCall.rd)} :
            /\ TraceOfCall(t, LastCall)
            /\ \A i \in ConsoleStarts(LastCall.rd) : \A pat \in Patterns :
                   (OccursAt(pat, LastCall.rd, i)
                    /\ AdjoinsWordChar(LastCall.rd, i, Len(pat)))
                       => KeptSpan(t.org, i, Len(pat))

\* a rewritten text in which one occurrence was replaced and another, with a
\* word character next to it, was kept
Wit_C5 ==
    /\ Len(hist) = 1
    /\ hist[1].wrote
    /\ \E i \in 1..Len(hist[1].rd) :
           /\ OccursAt(console_log, hist[1].rd, i)
           /\ AdjoinsWordChar(hist[1].rd, i, Len(console_log))
           /\ KeptSpan(Trace(hist[1].rd).org, i, Len(console_log))

----------------------------------------------------------------------------
(* The text a rewrite is to produce, computed in one pass over the input *)

\* the substitutes the claim names
Substitute(pat) ==
    CASE pat = console_log -> logger_info
      [] pat = console_info -> logger_info
      [] pat = console_error -> logger_error
      [] pat = console_warn -> logger_warn
      [] pat = console_debug -> logger_debug

\* a recognized occurrence: the pattern as a whole word
Recognized(pat, s, i) ==
    /\ OccursAt(pat, s, i)
    /\ ~(i > 1 /\ s[i - 1] \in WordChars)
    /\ ~(i + Len(pat) <= Len(s) /\ s[i + Len(pat)] \in WordChars)

NumRecognized(s) ==
    Cardinality({i \in ConsoleStarts(s) : \E pat \in Patterns : Recognized(pat, s, i)})

\* the input with every recognized occurrence replaced by its substitute and
\* every other character copied
RECURSIVE ExpectedFrom(_, _)
ExpectedFrom(s, i) ==
    IF i > Len(s) THEN <<>>
    ELSE IF s[i] = "c" /\ \E pat \in Patterns : Recognized(pat, s, i)
         THEN LET pat == CHOOSE q \in Patterns : Recognized(q, s, i)
              IN Substitute(pat) \o ExpectedFrom(s, i + Len(pat))
         ELSE <<s[i]>> \o ExpectedFrom(s, i + 1)

Expected(s) == ExpectedFrom(s, 1)

\* C6: for a text with N >= 1 recognized occurrences and no logger-import
\* marker, the written text is the input with all N occurrences replaced by
\* their substitutes and every other character unchanged and in order, plus
\* exactly one inserted import line.
Thm_C6_OnlyMatchesChange ==
    (Called /\ NumRecognized(LastCall.rd) >= 1
            /\ ~Contains(LOGGER_IMPORT_MARKER, LastCall.rd)) =>
        \E written \in {Split(LastCall.after)} :
            /\ LastCall.ret = "True"
            /\ CountLines(written, TheImport) = 1
            /\ \E j \in 1..Len(written) :
                   /\ written[j] = TheImport
                   /\ Join(RemoveAt(written, j)) = Expected(LastCall.rd)
            /\ NumRecognized(LastCall.after) = 0

\* a rewrite of a text with recognized occurrences of two different rules, one
\* of them console.info
Wit_C6 ==
    /\ Len(hist) = 1
    /\ hist[1].ret = "True"
    /\ ~Contains(LOGGER_IMPORT_MARKER, hist[1].rd)
    /\ NumRecognized(hist[1].rd) >= 2
    /\ \E i \in 1..Len(hist[1].rd) : Recognized(console_info, hist[1].rd, i)
    /\ \E i \in 1..Len(hist[1].rd) : Recognized(console_error, hist[1].rd, i)

----------------------------------------------------------------------------
(* Where the import line goes *)

IMPORT_TYPE_SPACE == <<"i","m","p","o","r","t"," ","t","y","p","e"," ">>
IMPORT_TYPE_BRACE == <<"i","m","p","o","r","t"," ","t","y","p","e","{">>

\* the line holds an import declaration
IsImportDeclaration(line) == StartsWith(Strip(line), IMPORT_PREFIX)

\* the line holds a type-only import: import type T ..., import type { T } ...
IsTypeOnlyImport(line) ==
    \/ StartsWith(Strip(line), IMPORT_TYPE_SPACE)
    \/ StartsWith(Strip(line), IMPORT_TYPE_BRACE)

\* 1-based index of the last import declaration that is not type-only, or 0
LastImportLine(lines) ==
    LET hits == {i \in 1..Len(lines) :
                     IsImportDeclaration(lines[i]) /\ ~IsTypeOnlyImport(lines[i])}
    IN IF hits = {} THEN 0 ELSE CHOOSE i \in hits : \A j \in hits : j <= i

\* lines with one line put in after the first n of them
WithLineAfter(lines, n, line) ==
    SubSeq(lines, 1, n) \o <<line>> \o SubSeq(lines, n + 1, Len(lines))

Rewritten == Called /\ LastCall.wrote
NoMarker == ~Contains(LOGGER_IMPORT_MARKER, LastCall.rd)

\* C8: for a rewritten text without the marker whose last non-type-only
\* import declaration is on line k (0-based), the new import is line k+1 of
\* the output, lines 0..k stay in place and every later line of the replaced
\* text follows unchanged, one index later.
Cex_C8_ImportAfterLastImport ==
    (Rewritten /\ NoMarker) =>
        \E lines \in {Split(LastCall.replaced)} :
            LastImportLine(lines) # 0 =>
                Split(LastCall.after) = WithLineAfter(lines, LastImportLine(lines), TheImport)

\* C9: for a rewritten text without the marker and without import lines, the
\* import goes right after a shebang first line, or after the blank line that
\* follows the shebang, and otherwise becomes the first line; in the server
\* and in the client variant.
Cex_C9_ImportAfterShebang ==
    (Rewritten /\ NoMarker) =>
        \E lines \in {Split(LastCall.replaced)} :
            (\A i \in 1..Len(lines) : ~IsImportDeclaration(lines[i])) =>
                Split(LastCall.after) =
                    IF StartsWith(lines[1], SHEBANG_PREFIX)
                    THEN IF Len(lines) > 1 /\ Strip(lines[2]) = <<>>
                         THEN WithLineAfter(lines, 2, TheImport)
                         ELSE WithLineAfter(lines, 1, TheImport)
                    ELSE WithLineAfter(lines, 0, TheImport)

----------------------------------------------------------------------------
(* main: the batch over the paths of the command line *)

BatchPaths == {PATH_lib, PATH_root, PATH_self}

TEXT_changes == console_log
TEXT_no_changes == F_g

\* what a path of the file system can be: missing, a regular file (with or
\* without console calls), a file that cannot be read (no permission, not
\* UTF-8, a directory), a file with console calls that cannot be written
FileStates ==
    {[exists |-> FALSE, text |-> <<>>, fault |-> "none"],
     [exists |-> TRUE, text |-> TEXT_changes, fault |-> "none"],
     [exists |-> TRUE, text |-> TEXT_no_changes, fault |-> "none"],
     [exists |-> TRUE, text |-> TEXT_no_changes, fault |-> "read"],
     [exists |-> TRUE, text |-> TEXT_changes, fault |-> "write"]}

FileIdle == /\ fpath = <<>> /\ disk = <<>> /\ hist = <<>>

InitBatch ==
    /\ variant \in Variants
    /\ files \in UNION {[1..n -> BatchPaths] : n \in 0..MaxFiles}
    /\ fs \in [BatchPaths -> FileStates]
    /\ idx = 1
    /\ pc = "start"
    /\ out = <<>>
    /\ migrated_count = 0
    /\ FileIdle
    /\ RetryIdle

Line(kind, path, count) == [kind |-> kind, path |-> path, count |-> count]

\* len(sys.argv) < 2: usage message, exit status 1
Usage ==
    /\ pc = "start"
    /\ files = <<>>
    /\ out' = Append(out, Line("Usage", <<>>, 0))
    /\ pc' = "usage"
    /\ UNCHANGED <<files, fs, idx, migrated_count>>
    /\ UNCHANGED fileVars
    /\ UNCHANGED retryVars

Begin ==
    /\ pc = "start"
    /\ files # <<>>
    /\ migrated_count' = 0
    /\ idx' = 1
    /\ pc' = "loop"
    /\ UNCHANGED <<files, fs, out>>
    /\ UNCHANGED fileVars
    /\ UNCHANGED retryVars

InLoop == pc = "loop" /\ idx <= Len(files)

\* the exclusion test of the server script; the client script has none
IsMigrationScript(v, filepath) == v = "server" /\ Contains(MIGRATION_SCRIPT, filepath)

\* not os.path.exists(filepath): print, continue
FileNotFound ==
    /\ InLoop
    /\ ~fs[files[idx]].exists
    /\ out' = Append(out, Line("File not found", files[idx], 0))
    /\ idx' = idx + 1
    /\ UNCHANGED <<files, fs, pc, migrated_count>>
    /\ UNCHANGED fileVars
    /\ UNCHANGED retryVars

\* 'migrate-to-logger.ts' in filepath: print, continue
SkipScript ==
    /\ InLoop
    /\ fs[files[idx]].exists
    /\ IsMigrationScript(variant, files[idx])
    /\ out' = Append(out, Line("Skipping", files[idx], 0))
    /\ idx' = idx + 1
    /\ UNCHANGED <<files, fs, pc, migrated_count>>
    /\ UNCHANGED fileVars
    /\ UNCHANGED retryVars

\* if migrate_file(filepath): migrated_count += 1
MigrateReturns ==
    /\ InLoop
    /\ fs[files[idx]].exists
    /\ ~IsMigrationScript(variant, files[idx])
    /\ \E r \in {migrate_file(variant, files[idx], fs[files[idx]])} :
          /\ r.ret # "raise"
          /\ fs' = [fs EXCEPT ![files[idx]].text = r.text]
          /\ out' = Append(out, Line(r.line, files[idx], 0))
          /\ migrated_count' = IF r.ret = "True" THEN migrated_count + 1
                               ELSE migrated_count
    /\ idx' = idx + 1
    /\ UNCHANGED <<files, pc>>
    /\ UNCHANGED fileVars
    /\ UNCHANGED retryVars

\* migrate_file raises: nothing in main catches it, the interpreter prints the
\* traceback to stderr and exits
MigrateRaises ==
    /\ InLoop
    /\ fs[files[idx]].exists
    /\ ~IsMigrationScript(variant, files[idx])
    /\ migrate_file(variant, files[idx], fs[files[idx]]).ret = "raise"
    /\ pc' = "crashed"
    /\ UNCHANGED <<files, fs, idx, out, migrated_count>>
    /\ UNCHANGED fileVars
    /\ UNCHANGED retryVars

\* after the loop: the summary line
Summary ==
    /\ pc = "loop"
    /\ idx > Len(files)
    /\ out' = Append(out, Line("Summary", <<>>, migrated_count))
    /\ pc' = "done"
    /\ UNCHANGED <<files, fs, idx, migrated_count>>
    /\ UNCHANGED fileVars
    /\ UNCHANGED retryVars

NextBatch ==
    \/ Usage
    \/ Begin
    \/ FileNotFound
    \/ SkipScript
    \/ MigrateReturns
    \/ MigrateRaises
    \/ Summary

SpecBatch == InitBatch /\ [][NextBatch]_vars

----------------------------------------------------------------------------
(* Properties of main *)

\* main has ended, after a loop over the paths
Stopped == pc \in {"done", "crashed"}

StatusLines == IF pc = "done" THEN SubSeq(out, 1, Len(out) - 1) ELSE out

\* the file at position i of the list cannot be read or cannot be written
FaultyAt(i) == fs[files[i]].exists /\ fs[files[i]].fault # "none"

\* C1: the batch never aborts early. When a path fails with a read or write
\* error, the failure is reported as a notice for that path, the paths after
\* it are still processed and the summary line is still printed.
Cex_C1_BatchNeverAborts ==
    Stopped =>
        /\ pc = "done"
        /\ Len(out) = Len(files) + 1
        /\ out[Len(out)].kind = "Summary"
        /\ \A i \in 1..Len(files) : out[i].path = files[i]

\* the status line the claim gives the path at position i
RightKind(i, kind) ==
    IF ~fs[files[i]].exists THEN kind = "File not found"
    ELSE IF Contains(MIGRATION_SCRIPT, files[i]) THEN kind = "Skipping"
    ELSE kind \in {"Migrated", "No changes"}

\* C7: main emits exactly one status line per path, in input order: NotFound
\* for a missing path, Skipped for an existing path that contains
\* 'migrate-to-logger.ts', otherwise Modified or Unchanged; and the count of
\* the summary is the number of Modified paths (for a run with at least one
\* path: without any, main prints the usage message).
Cex_C7_OneStatusLinePerPath ==
    pc # "usage" =>
    /\ Len(StatusLines) <= Len(files)
    /\ \A i \in 1..Len(StatusLines) :
           /\ StatusLines[i].path = files[i]
           /\ RightKind(i, StatusLines[i].kind)
    /\ Stopped =>
           /\ Len(StatusLines) = Len(files)
           /\ pc = "done"
           /\ out[Len(out)].kind = "Summary"
           /\ out[Len(out)].count =
                  Cardinality({i \in 1..Len(StatusLines) : StatusLines[i].kind = "Migrated"})

----------------------------------------------------------------------------
(* retry-failed-jobs.py *)

Statuses == {"failed", "completed"}
Terms == {"Smith", "Jones", "Oak St"}
Jobs == [status : Statuses, searchTerm : Terms]

\* response.status_code == 202
ACCEPTED == 202
\* the other status codes the service answers with
OtherStatuses == {200, 429, 500}

InitRetry ==
    /\ data \in UNION {[1..n -> Jobs] : n \in 0..MaxJobs}
    /\ search_terms = <<>>
    /\ rpc = "get"
    /\ ri = 1
    /\ success = 0
    /\ failed = 0
    /\ posts = <<>>
    /\ variant = "none"
    /\ FileIdle
    /\ BatchIdle

\* failed_jobs = [job for job in data['data'] if job['status'] == 'failed']
failed_jobs(d) == SelectSeq(d, LAMBDA job : job.status = "failed")

\* set([job['searchTerm'] for job in failed_jobs])
term_set(jobs) == {jobs[i].searchTerm : i \in 1..Len(jobs)}

\* list(set(...)): the elements once each, in an order the code does not fix
ListsOf(S) ==
    {l \in [1..Cardinality(S) -> S] : \A i, j \in 1..Cardinality(S) : l[i] = l[j] => i = j}

\* lines 7-16: the GET answers with the job records; filter, deduplicate
GetHistory ==
    /\ rpc = "get"
    /\ search_terms' \in ListsOf(term_set(failed_jobs(data)))
    /\ success' = 0
    /\ failed' = 0
    /\ ri' = 1
    /\ rpc' = "loop"
    /\ UNCHANGED <<data, posts>>
    /\ UNCHANGED fileVars
    /\ UNCHANGED batchVars

\* the GET raises (connection refused) or the body is not the expected JSON:
\* nothing catches it
GetRaises ==
    /\ rpc = "get"
    /\ rpc' = "crashed"
    /\ UNCHANGED <<data, search_terms, ri, success, failed, posts>>
    /\ UNCHANGED fileVars
    /\ UNCHANGED batchVars

InRetryLoop == rpc = "loop" /\ ri <= Len(search_terms)

\* the POST is answered 202: success += 1, sleep
PostAccepted ==
    /\ InRetryLoop
    /\ posts' = Append(posts, [term |-> search_terms[ri], status |-> ACCEPTED,
                                raised |-> FALSE])
    /\ success' = success + 1
    /\ ri' = ri + 1
    /\ UNCHANGED <<data, search_terms, rpc, failed>>
    /\ UNCHANGED fileVars
    /\ UNCHANGED batchVars

\* the POST is answered with another status: failed += 1, sleep
PostRejected ==
    /\ InRetryLoop
    /\ \E code \in OtherStatuses :
           posts' = Append(posts, [term |-> search_terms[ri], status |-> code,
                                   raised |-> FALSE])
    /\ failed' = failed + 1
    /\ ri' = ri + 1
    /\ UNCHANGED <<data, search_terms, rpc, success>>
    /\ UNCHANGED fileVars
    /\ UNCHANGED batchVars

\* an except clause that ends the loop instead of counting the failure
PostRaisesAndStops ==
    /\ InRetryLoop
    /\ posts' = Append(posts, [term |-> search_terms[ri], status |-> 0,
                                raised |-> TRUE])
    /\ rpc' = "crashed"
    /\ UNCHANGED <<data, search_terms, ri, success, failed>>
    /\ UNCHANGED fileVars
    /\ UNCHANGED batchVars

\* the request raises (timeout, connection error): caught, failed += 1, sleep
PostRaises ==
    /\ InRetryLoop
    /\ posts' = Append(posts, [term |-> search_terms[ri], status |-> 0,
                                raised |-> TRUE])
    /\ failed' = failed + 1
    /\ ri' = ri + 1
    /\ UNCHANGED <<data, search_terms, rpc, success>>
    /\ UNCHANGED fileVars
    /\ UNCHANGED batchVars

\* after the loop: the two summary lines
Report ==
    /\ rpc = "loop"
    /\ ri > Len(search_terms)
    /\ rpc' = "done"
    /\ UNCHANGED <<data, search_terms, ri, success, failed, posts>>
    /\ UNCHANGED fileVars
    /\ UNCHANGED batchVars

NextRetry ==
    \/ GetHistory
    \/ GetRaises
    \/ PostAccepted
    \/ PostRejected
    \/ PostRaises
    \/ Report

SpecRetry == InitRetry /\ [][NextRetry]_vars

----------------------------------------------------------------------------
(* Properties of the retry script *)

\* the distinct search terms of the records with status 'failed'
FailedTerms == {t \in Terms : \E i \in 1..Len(data) :
                                  data[i].status = "failed" /\ data[i].searchTerm = t}

PostsWhere(P(_)) == Cardinality({i \in 1..Len(posts) : P(posts[i])})

IsAccepted(post) == ~post.raised /\ post.status = 202
IsNotAccepted(post) == post.raised \/ post.status # 202

\* C10: exactly one POST per distinct failed search term and none for any
\* other term; a non-202 answer or an exception counts as a failure and never
\* stops the loop; at the end success + failed is the number of distinct
\* failed terms and success is the number of 202 answers.
Thm_C10_OnePostPerFailedTerm ==
    /\ \A i \in 1..Len(posts) : posts[i].term \in FailedTerms
    /\ \A i, j \in 1..Len(posts) : posts[i].term = posts[j].term => i = j
    /\ rpc \in {"loop", "done"} =>
           /\ success = PostsWhere(IsAccepted)
           /\ failed = PostsWhere(IsNotAccepted)
           /\ success + failed = Len(posts)
    /\ rpc = "crashed" => posts = <<>>
    /\ rpc = "done" =>
           /\ {posts[i].term : i \in 1..Len(posts)} = FailedTerms
           /\ success + failed = Cardinality(FailedTerms)

\* a finished run over two failed terms, one of them listed twice, a
\* completed job, one POST accepted and one not
Wit_C10 ==
    /\ rpc = "done"
    /\ Len(posts) = 2
    /\ Len(failed_jobs(data)) = 3
    /\ success = 1
    /\ failed = 1

====
